---- MODULE Spec2Model ----
(***************************************************************************)
(* huge_global_alloc: a global allocator that serves requests of at least  *)
(* `threshold` bytes from anonymous memory mappings (2 MiB huge pages      *)
(* first, default pages as fallback) and everything else from the system   *)
(* allocator.                                                              *)
(*                                                                         *)
(* Layers, as in the source:                                               *)
(*   MMap                 (src/src/mmap.rs)    one anonymous mapping       *)
(*   MMapper              (src/src/mmapper.rs) ptr -> MMap table + counters*)
(*   HugeGlobalAllocator  (src/src/lib.rs)     the GlobalAlloc facade      *)
(*                                                                         *)
(* Every facade call runs under the facade's Mutex<MMapper>, so each call  *)
(* is one atomic action.  The operating system (mmap, mremap, munmap) and  *)
(* the system allocator are the environment: their results are chosen      *)
(* nondeterministically among the outcomes they can produce.               *)
(***************************************************************************)
EXTENDS Integers, FiniteSets, Sequences, TLC

VARIABLES
    threshold,  \* HugeGlobalAllocator.threshold
    mapper,     \* HugeGlobalAllocator.mapper: [ptr_map, stats]
    vm,         \* the process's live anonymous mappings: base address -> mapped size
    heap,       \* the system allocator's live blocks: address -> layout
    fatal,      \* "" while the process runs, else the message of the fatal path taken
    last,       \* record of the most recent facade call (arguments, route, result)
    lock,       \* owner of the facade's Mutex<MMapper>: a thread, or 0 when unlocked
    pc,         \* each thread's position inside the facade call it is making
    tl          \* each thread's locals inside that call

vars == <<threshold, mapper, vm, heap, fatal, last, lock, pc, tl>>

(* the variables only the threaded specification moves *)
tvars == <<lock, pc, tl>>

----------------------------------------------------------------------------
(* Program constants *)

MiB == 1048576

TWO_MB_PAGE_SIZE == 2097152

DEFAULT_PAGE_SIZE == 4096

NULL == 0

(* Bounds of the model *)

MaxAddr == 2

MaxMissed == 1

MaxRemapsFailed == 1

NumThreads == 2

Addrs == 1..MaxAddr

Threads == 1..NumThreads

(* Thresholds offered to the constructor, and request sizes. *)
ThresholdInputs == {0, MiB - 1, MiB, 2 * MiB}

Sizes == {MiB - 1, MiB, 2 * MiB + 1}

Aligns == {8}

Layouts == [size : Sizes, align : Aligns]

----------------------------------------------------------------------------
(* Option<T>: None is <<>>, Some(x) is <<x>>. *)

None == <<>>

Some(x) == <<x>>

is_some(o) == Len(o) = 1

EmptyMap == [a \in {} |-> 0]

(* HashMap::remove / insert on a function with an integer domain *)
MapRemove(f, k) == [a \in (DOMAIN f) \ {k} |-> f[a]]

MapInsert(f, k, v) == [a \in (DOMAIN f) \cup {k} |-> IF a = k THEN v ELSE f[a]]

----------------------------------------------------------------------------
(* Segment: MMap *)

(* faulty variant: rounds down to whole pages *)
calc_alloc_size_floor(size, page_size) == (size \div page_size) * page_size

(* faulty variant: one page more than the whole pages below `size` *)
calc_alloc_size_next(size, page_size) == ((size \div page_size) + 1) * page_size

(* calc_alloc_size: whole pages covering `size` *)
calc_alloc_size(size, page_size) == (((size - 1) \div page_size) + 1) * page_size

MMap_size(mmap) == mmap.layout.size

is_default_page_size(mmap) == mmap.page_size = DEFAULT_PAGE_SIZE

(* map_2mb / map_default: the mapping the call builds when map_anon gives `ptr` *)
map_2mb(layout, ptr) ==
    [ptr |-> ptr, layout |-> layout,
     alloc_size |-> calc_alloc_size(layout.size, TWO_MB_PAGE_SIZE),
     page_size |-> TWO_MB_PAGE_SIZE]

map_default(layout, ptr) ==
    [ptr |-> ptr, layout |-> layout,
     alloc_size |-> calc_alloc_size(layout.size, DEFAULT_PAGE_SIZE),
     page_size |-> DEFAULT_PAGE_SIZE]

(* no mapping is made: none is asked for, or both mmap calls fail *)
NoAnswer == [huge |-> FALSE, dflt |-> FALSE, addr |-> NULL]

(* The kernel's answers to one MMap::new: does the MAP_HUGETLB mmap succeed,  *)
(* does the plain mmap succeed, and at which free address.                    *)
FreeAddrs == Addrs \ ((DOMAIN vm) \cup (DOMAIN heap))

MapAnswers ==
    [huge : BOOLEAN, dflt : {TRUE}, addr : FreeAddrs] \cup {NoAnswer}

(* faulty variant: the default-page mapping is tried first *)
MMap_new_default_first(layout, os) ==
    IF os.dflt THEN Some(map_default(layout, os.addr))
    ELSE IF os.huge THEN Some(map_2mb(layout, os.addr))
    ELSE None

(* MMap::new: huge first, default only if that fails; None if both fail. *)
MMap_new(layout, os) ==
    IF os.huge THEN Some(map_2mb(layout, os.addr))
    ELSE IF os.dflt THEN Some(map_default(layout, os.addr))
    ELSE None

(* The kernel's answers to the mremap(MREMAP_MAYMOVE) that MMap::remap makes   *)
(* when the mapped size changes: failure, or success at the same or at another *)
(* free address.  When the mapped size stays, mremap is not called.            *)
RemapAnswers(mmap, new_layout) ==
    IF mmap.alloc_size # calc_alloc_size(new_layout.size, mmap.page_size)
    THEN [ok : {TRUE}, addr : FreeAddrs \cup {mmap.ptr}]
             \cup [ok : {FALSE}, addr : {mmap.ptr}]
    ELSE [ok : {TRUE}, addr : {mmap.ptr}]

(* faulty variant: the requested layout is stored whether or not mremap worked *)
MMap_remap_dirty(mmap, new_layout, os) ==
    LET new_alloc_size == calc_alloc_size(new_layout.size, mmap.page_size) IN
    IF mmap.alloc_size # new_alloc_size
    THEN IF os.ok
         THEN [ok |-> TRUE, called |-> TRUE,
               mmap |-> [mmap EXCEPT !.ptr = os.addr,
                                     !.alloc_size = new_alloc_size,
                                     !.layout = new_layout]]
         ELSE [ok |-> FALSE, called |-> TRUE,
               mmap |-> [mmap EXCEPT !.layout = new_layout]]
    ELSE [ok |-> TRUE, called |-> FALSE,
          mmap |-> [mmap EXCEPT !.layout = new_layout]]

(* faulty variant: a mapping that mremap has resized is on default pages *)
MMap_remap_repage(mmap, new_layout, os) ==
    LET new_alloc_size == calc_alloc_size(new_layout.size, mmap.page_size) IN
    IF mmap.alloc_size # new_alloc_size
    THEN IF os.ok
         THEN [ok |-> TRUE, called |-> TRUE,
               mmap |-> [mmap EXCEPT !.ptr = os.addr,
                                     !.alloc_size = new_alloc_size,
                                     !.layout = new_layout,
                                     !.page_size = DEFAULT_PAGE_SIZE]]
         ELSE [ok |-> FALSE, called |-> TRUE, mmap |-> mmap]
    ELSE [ok |-> TRUE, called |-> FALSE,
          mmap |-> [mmap EXCEPT !.layout = new_layout]]

(* MMap::remap: result is [ok, mmap, called] with `called` telling whether     *)
(* mremap was invoked.                                                         *)
MMap_remap(mmap, new_layout, os) ==
    LET new_alloc_size == calc_alloc_size(new_layout.size, mmap.page_size) IN
    IF mmap.alloc_size # new_alloc_size
    THEN IF os.ok
         THEN [ok |-> TRUE, called |-> TRUE,
               mmap |-> [mmap EXCEPT !.ptr = os.addr,
                                     !.alloc_size = new_alloc_size,
                                     !.layout = new_layout]]
         ELSE [ok |-> FALSE, called |-> TRUE, mmap |-> mmap]
    ELSE [ok |-> TRUE, called |-> FALSE,
          mmap |-> [mmap EXCEPT !.layout = new_layout]]

(* impl Drop for MMap: munmap(ptr, alloc_size); fails (fatal) when that range  *)
(* is not a live mapping of the process.                                       *)
munmap_ok(v, mmap) == mmap.ptr \in DOMAIN v /\ v[mmap.ptr] = mmap.alloc_size

----------------------------------------------------------------------------
(* Registry: MMapper.  The operators below work on a "world" record          *)
(*   w = [mapper, vm, fatal, unmapped]                                        *)
(* where `unmapped` logs the addresses munmap was called on during the call.  *)
(* Once w.fatal is set the process has aborted and nothing more happens.      *)

MMapperStats_new == [missed_allocs |-> 0, missed_bytes |-> 0, missed_mb |-> 0,
                     remaps_failed |-> 0]

MMapper_new == [ptr_map |-> None, stats |-> MMapperStats_new]

World(m, v) == [mapper |-> m, vm |-> v, fatal |-> "", unmapped |-> {}]

(* alloc_error / alloc_error_layout: handle_alloc_error aborts the process *)
alloc_error(w, reason) == IF w.fatal = "" THEN [w EXCEPT !.fatal = reason] ELSE w

(* the mmap system call made by a successful MMap::new *)
vm_map(w, mmap) == [w EXCEPT !.vm = MapInsert(w.vm, mmap.ptr, mmap.alloc_size)]

(* impl Drop for MMap *)
MMap_drop(w, mmap) ==
    IF w.fatal # "" THEN w
    ELSE IF munmap_ok(w.vm, mmap)
    THEN [w EXCEPT !.vm = MapRemove(w.vm, mmap.ptr),
                   !.unmapped = w.unmapped \cup {mmap.ptr}]
    ELSE alloc_error(w, "MMapper::realloc: failed to unmap")

(* add_missed on the counters *)
add_missed(stats, bytes) ==
    LET s1 == [stats EXCEPT !.missed_allocs = stats.missed_allocs + 1,
                            !.missed_bytes = stats.missed_bytes + bytes]
        mb == s1.missed_bytes \div MiB
    IN  IF s1.missed_bytes > MiB
        THEN [s1 EXCEPT !.missed_bytes = s1.missed_bytes - mb * MiB,
                        !.missed_mb = s1.missed_mb + mb]
        ELSE s1

w_add_missed(w, bytes) ==
    IF w.fatal # "" THEN w
    ELSE [w EXCEPT !.mapper.stats = add_missed(w.mapper.stats, bytes)]

(* lock_map_for_insert: creates the table on first use *)
lock_map_for_insert(ptr_map) == IF is_some(ptr_map) THEN ptr_map ELSE Some(EmptyMap)

(* faulty variant: an entry already under the key is replaced silently *)
map_add_quiet(w, mmap) ==
    IF w.fatal # "" THEN w
    ELSE LET table == lock_map_for_insert(w.mapper.ptr_map)[1]
         IN  [w EXCEPT !.mapper.ptr_map = Some(MapInsert(table, mmap.ptr, mmap))]

(* map_add: HashMap::insert replaces (and drops) an entry already under the  *)
(* key and the call then takes the fatal path.                               *)
map_add(w, mmap) ==
    IF w.fatal # "" THEN w
    ELSE LET table == lock_map_for_insert(w.mapper.ptr_map)[1]
             w1 == [w EXCEPT !.mapper.ptr_map = Some(MapInsert(table, mmap.ptr, mmap))]
         IN  IF mmap.ptr \in DOMAIN table
             THEN alloc_error(w1, "MMapper::map_add: map already exists")
             ELSE w1

(* map_remove: [w, removed] with removed the Option<MMap> taken out *)
map_remove(w, ptr) ==
    IF is_some(w.mapper.ptr_map) /\ ptr \in DOMAIN w.mapper.ptr_map[1]
    THEN [w |-> [w EXCEPT !.mapper.ptr_map = Some(MapRemove(w.mapper.ptr_map[1], ptr))],
          removed |-> Some(w.mapper.ptr_map[1][ptr])]
    ELSE [w |-> w, removed |-> None]

(* is_managed_ptr *)
is_managed_ptr(m, ptr) == is_some(m.ptr_map) /\ ptr \in DOMAIN m.ptr_map[1]

(* MMapper::alloc: [w, ptr] *)
MMapper_alloc(w, layout, os) ==
    LET made == MMap_new(layout, os) IN
    IF w.fatal # "" THEN [w |-> w, ptr |-> NULL]
    ELSE IF ~is_some(made)
    THEN [w |-> alloc_error(w, "MMapper::alloc: failed to map segment"), ptr |-> NULL]
    ELSE LET mmap == made[1]
             w1 == vm_map(w, mmap)
             w2 == IF is_default_page_size(mmap)
                   THEN w_add_missed(w1, layout.size) ELSE w1
         IN  [w |-> map_add(w2, mmap), ptr |-> mmap.ptr]

(* faulty variant: reports the entry without removing it *)
MMapper_dealloc_keep(w, ptr) == [w |-> w, ok |-> map_remove(w, ptr).removed # None]

(* MMapper::dealloc: [w, ok]; the removed MMap is dropped, which unmaps it *)
MMapper_dealloc(w, ptr) ==
    LET r == map_remove(w, ptr) IN
    IF is_some(r.removed)
    THEN [w |-> MMap_drop(r.w, r.removed[1]), ok |-> TRUE]
    ELSE [w |-> r.w, ok |-> FALSE]

(* the mremap system call's effect on the process's mappings *)
vm_remap(w, old, new) ==
    [w EXCEPT !.vm = MapInsert(MapRemove(w.vm, old.ptr), new.ptr, new.alloc_size)]

(* faulty variant of the failed-remap arm: remaps_failed is not counted *)
realloc_fallback_nocount(w, mmap, layout, aos) ==
    LET a == MMapper_alloc(w, layout, aos) IN
    [w |-> MMap_drop(a.w, mmap), ptr |-> a.ptr,
     copied |-> IF a.w.fatal = "" THEN MMap_size(mmap) ELSE 0, remap |-> "failed"]

(* the failed-remap arm of MMapper::realloc, lines 86-101 *)
realloc_fallback(w, mmap, layout, aos) ==
    LET w1 == [w EXCEPT !.mapper.stats.remaps_failed = w.mapper.stats.remaps_failed + 1]
        a == MMapper_alloc(w1, layout, aos)
    IN  [w |-> MMap_drop(a.w, mmap), ptr |-> a.ptr,
         copied |-> IF a.w.fatal = "" THEN MMap_size(mmap) ELSE 0, remap |-> "failed"]

(* the successful-remap arm of MMapper::realloc, lines 67-84 *)
realloc_remapped(w, old, rm, layout) ==
    LET new == rm.mmap
        w1 == IF rm.called THEN vm_remap(w, old, new) ELSE w
        w2 == IF is_default_page_size(old)
              THEN IF layout.size > MMap_size(old)
                   THEN w_add_missed(w1, layout.size - MMap_size(old)) ELSE w1
              ELSE IF is_default_page_size(new)
                   THEN w_add_missed(w1, layout.size) ELSE w1
    IN  [w |-> map_add(w2, new), ptr |-> new.ptr, copied |-> 0,
         remap |-> IF ~rm.called THEN "same_size"
                   ELSE IF new.ptr = old.ptr THEN "in_place" ELSE "moved"]

(* MMapper::realloc: [w, ptr, copied, remap] *)
MMapper_realloc(w, ptr, layout, ros, aos) ==
    LET r == map_remove(w, ptr) IN
    IF ~is_some(r.removed)
    THEN [w |-> alloc_error(w, "MMapper::realloc: ptr not found"), ptr |-> NULL,
          copied |-> 0, remap |-> "none"]
    ELSE LET mmap == r.removed[1]
             rm == MMap_remap(mmap, layout, ros)
         IN  IF rm.ok THEN realloc_remapped(r.w, mmap, rm, layout)
             ELSE realloc_fallback(r.w, mmap, layout, aos)

----------------------------------------------------------------------------
(* MMapper::stats *)

RECURSIVE SumOver(_, _)
SumOver(f, S) ==
    IF S = {} THEN 0
    ELSE LET a == CHOOSE x \in S : TRUE IN f[a] + SumOver(f, S \ {a})

Table(m) == IF is_some(m.ptr_map) THEN m.ptr_map[1] ELSE EmptyMap

DefaultEntries(table) == {a \in DOMAIN table : is_default_page_size(table[a])}

(* faulty variant: the huge figures count every segment *)
HugeEntries_all(table) == DOMAIN table

HugeEntries(table) == {a \in DOMAIN table : ~is_default_page_size(table[a])}

(* faulty variant: nothing mapped reports 0 *)
efficiency_zero_when_unmapped(alloc, mapped) ==
    IF mapped = 0 THEN 0 ELSE (alloc * 100) \div mapped

efficiency(alloc, mapped) ==
    IF mapped = 0 THEN 100 ELSE (alloc * 100) \div mapped

(* missed_mb is an f64 in the source: missed_mb + missed_bytes / 2^20.  The   *)
(* snapshot holds that value times 2^20, which is exact.                      *)
missed_total(stats) == stats.missed_mb * MiB + stats.missed_bytes

MMapper_stats(m) ==
    LET table == Table(m)
        sizes == [a \in DOMAIN table |-> MMap_size(table[a])]
        mapped == [a \in DOMAIN table |-> table[a].alloc_size]
        all == DOMAIN table
        dflt == DefaultEntries(table)
        huge == HugeEntries(table)
        alloc_bytes == SumOver(sizes, all)
        mapped_bytes == SumOver(mapped, all)
    IN  [alloc |-> alloc_bytes,
         mapped |-> mapped_bytes,
         segments |-> Cardinality(all),
         default_alloc |-> SumOver(sizes, dflt),
         default_mapped |-> SumOver(mapped, dflt),
         default_segments |-> Cardinality(dflt),
         huge_alloc |-> SumOver(sizes, huge),
         huge_mapped |-> SumOver(mapped, huge),
         huge_segments |-> Cardinality(huge),
         missed_allocs |-> m.stats.missed_allocs,
         missed_mb |-> missed_total(m.stats),
         remaps_failed |-> m.stats.remaps_failed,
         efficiency |-> efficiency(alloc_bytes, mapped_bytes)]

----------------------------------------------------------------------------
(* The system allocator (std::alloc::System), as the facade uses it.          *)

(* System.alloc: null, or a block at a free address whose bytes are           *)
(* uninitialised: they may or may not all be zero, which is drawn when the    *)
(* caller was asked for zeroed memory (`asked`) and left open otherwise.      *)
SysAllocAnswers(asked) ==
    [addr : FreeAddrs, zero : IF asked THEN BOOLEAN ELSE {FALSE}]
        \cup [addr : {NULL}, zero : {FALSE}]

(* System.realloc: null (the old block stays), or the block at the same or    *)
(* another free address.                                                      *)
SysReallocAnswers(ptr) == FreeAddrs \cup {NULL, ptr}

sys_alloc(h, layout, addr) == IF addr = NULL THEN h ELSE MapInsert(h, addr, layout)

sys_dealloc(h, ptr) == MapRemove(h, ptr)

----------------------------------------------------------------------------
(* Facade: HugeGlobalAllocator *)

(* HugeGlobalAllocator::new asserts threshold >= 1024 * 1024 *)
new_assert(t) == t >= MiB

(* faulty variant: a request of exactly the threshold goes to the system *)
uses_mapper_gt(size, thr) == size > thr

(* faulty variant: the dispatch uses the smallest threshold new() accepts *)
uses_mapper_min(size, thr) == size >= MiB

(* the dispatch test of alloc and realloc: size >= self.threshold *)
uses_mapper(size, thr) == size >= thr

NoLayout == [size |-> 0, align |-> 0]

(* A call record: what was asked, which route was taken, what came back.      *)
NoCall ==
    [op |-> "new", branch |-> "none", ptr |-> NULL, layout |-> NoLayout,
     new_size |-> 0, ret |-> NULL, sys |-> "none", sys_layout |-> NoLayout,
     copied |-> 0, remap |-> "none", unmapped |-> {}, zeroed |-> FALSE,
     pre_segments |-> 0, pre_alloc |-> 0, follows |-> "none"]

(* the call record every call starts from *)
Call(op) == [NoCall EXCEPT !.op = op]

(* the same, remembering what stats() reported when the call was made *)
CallFrom(op) ==
    LET before == MMapper_stats(mapper) IN
    [NoCall EXCEPT !.op = op,
                   !.pre_segments = before.segments,
                   !.pre_alloc = before.alloc]

(* the blocks the application holds: managed segments and system blocks *)
ManagedPtrs == DOMAIN Table(mapper)

LivePtrs == ManagedPtrs \cup DOMAIN heap

LayoutOf(ptr) == IF ptr \in ManagedPtrs THEN Table(mapper)[ptr].layout ELSE heap[ptr]

(* dealloc records the route of the previous call when it frees its result *)
Follows(ptr) ==
    IF last.op \in {"alloc", "alloc_zeroed", "realloc"} /\ last.ret = ptr /\ ptr # NULL
    THEN last.op \o ":" \o last.branch
    ELSE "none"

(* counters stay within the model's bounds *)
WithinBounds(m) ==
    /\ m.stats.missed_allocs <= MaxMissed
    /\ m.stats.remaps_failed <= MaxRemapsFailed

Commit(w) ==
    /\ WithinBounds(w.mapper)
    /\ mapper' = w.mapper
    /\ vm' = w.vm
    /\ fatal' = w.fatal

(* a thread's locals: the pointer and layout it was called with, the segment  *)
(* it has made or taken out of the table, the segment it will drop, the       *)
(* system block it will free, and the table a stats call has read             *)
NoLocals == [ptr |-> NULL, layout |-> NoLayout, mmap |-> None, old |-> None,
             sys_old |-> NULL, table |-> None]

Init ==
    /\ threshold \in {t \in ThresholdInputs : new_assert(t)}
    /\ mapper = MMapper_new
    /\ vm = EmptyMap
    /\ heap = EmptyMap
    /\ fatal = ""
    /\ last = NoCall
    /\ lock = 0
    /\ pc = [t \in Threads |-> "idle"]
    /\ tl = [t \in Threads |-> NoLocals]

(* alloc through the mapper, lines 67-74 *)
AllocMapped(op, layout) ==
    LET call == CallFrom(op) IN
    \E os \in MapAnswers :
        LET r == MMapper_alloc(World(mapper, vm), layout, os) IN
        /\ Commit(r.w)
        /\ heap' = heap
        /\ last' = [call EXCEPT !.branch = "mapper", !.layout = layout,
                                    !.ret = r.ptr, !.zeroed = (r.ptr # NULL)]

(* alloc through System.alloc, lines 75-78 *)
AllocSystem(op, layout) ==
    LET call == CallFrom(op) IN
    \E os \in SysAllocAnswers(op = "alloc_zeroed") :
        /\ heap' = sys_alloc(heap, layout, os.addr)
        /\ UNCHANGED <<mapper, vm, fatal>>
        /\ last' = [call EXCEPT !.branch = "system", !.layout = layout,
                                    !.ret = os.addr, !.sys = "alloc",
                                    !.sys_layout = layout,
                                    !.zeroed = (os.addr # NULL /\ os.zero)]

HugeGlobalAllocator_alloc(op, layout) ==
    IF uses_mapper(layout.size, threshold)
    THEN AllocMapped(op, layout)
    ELSE AllocSystem(op, layout)

Alloc ==
    /\ fatal = ""
    /\ \E layout \in Layouts : HugeGlobalAllocator_alloc("alloc", layout)
    /\ UNCHANGED <<threshold, tvars>>

(* alloc_zeroed is self.alloc(layout) *)
AllocZeroed ==
    /\ fatal = ""
    /\ \E layout \in Layouts : HugeGlobalAllocator_alloc("alloc_zeroed", layout)
    /\ UNCHANGED <<threshold, tvars>>

(* faulty variant: System.dealloc is called whatever the mapper reports *)
HugeGlobalAllocator_dealloc_both(ptr, layout) ==
    LET r == MMapper_dealloc(World(mapper, vm), ptr) IN
    /\ Commit(r.w)
    /\ heap' = sys_dealloc(heap, ptr)
    /\ last' = [Call("dealloc") EXCEPT
                   !.branch = IF r.ok THEN "mapper" ELSE "system",
                   !.ptr = ptr, !.layout = layout, !.follows = Follows(ptr),
                   !.unmapped = r.w.unmapped,
                   !.sys = "dealloc", !.sys_layout = layout]

(* dealloc, lines 81-94 *)
HugeGlobalAllocator_dealloc(ptr, layout) ==
    LET r == MMapper_dealloc(World(mapper, vm), ptr) IN
    /\ Commit(r.w)
    /\ heap' = IF r.ok THEN heap ELSE sys_dealloc(heap, ptr)
    /\ last' = [Call("dealloc") EXCEPT
                   !.branch = IF r.ok THEN "mapper" ELSE "system",
                   !.ptr = ptr, !.layout = layout, !.follows = Follows(ptr),
                   !.unmapped = r.w.unmapped,
                   !.sys = IF r.ok THEN "none" ELSE "dealloc",
                   !.sys_layout = IF r.ok THEN NoLayout ELSE layout]

Dealloc ==
    /\ fatal = ""
    /\ \E ptr \in LivePtrs : HugeGlobalAllocator_dealloc(ptr, LayoutOf(ptr))
    /\ UNCHANGED <<threshold, tvars>>

(* realloc, managed -> managed: lines 112-114 *)
ReallocManaged(old_ptr, old_layout, new_layout) ==
    \E ros \in RemapAnswers(Table(mapper)[old_ptr], new_layout) :
    \E aos \in IF ros.ok THEN {NoAnswer} ELSE MapAnswers :
        LET r == MMapper_realloc(World(mapper, vm), old_ptr, new_layout, ros, aos) IN
        /\ Commit(r.w)
        /\ heap' = heap
        /\ last' = [Call("realloc") EXCEPT
                       !.branch = "managed_managed", !.ptr = old_ptr,
                       !.layout = old_layout, !.new_size = new_layout.size,
                       !.ret = r.ptr, !.copied = r.copied, !.remap = r.remap,
                       !.unmapped = r.w.unmapped]

(* faulty variant: the old entry is left in the registry *)
ReallocToSystem_keep(old_ptr, old_layout, new_layout) ==
    \E os \in SysAllocAnswers(FALSE) :
        /\ Commit(World(mapper, vm))
        /\ heap' = sys_alloc(heap, new_layout, os.addr)
        /\ last' = [Call("realloc") EXCEPT
                       !.branch = "managed_system", !.ptr = old_ptr,
                       !.layout = old_layout, !.new_size = new_layout.size,
                       !.ret = os.addr, !.sys = "alloc", !.sys_layout = new_layout,
                       !.copied = IF os.addr # NULL THEN new_layout.size ELSE 0]

(* faulty variant: the copy takes the old block's size *)
ReallocToSystem_copyold(old_ptr, old_layout, new_layout) ==
    \E os \in SysAllocAnswers(FALSE) :
        LET r == MMapper_dealloc(World(mapper, vm), old_ptr) IN
        /\ Commit(r.w)
        /\ heap' = sys_alloc(heap, new_layout, os.addr)
        /\ last' = [Call("realloc") EXCEPT
                       !.branch = "managed_system", !.ptr = old_ptr,
                       !.layout = old_layout, !.new_size = new_layout.size,
                       !.ret = os.addr, !.sys = "alloc", !.sys_layout = new_layout,
                       !.copied = IF os.addr # NULL THEN old_layout.size ELSE 0,
                       !.unmapped = r.w.unmapped]

(* realloc, managed -> system: lines 115-130 *)
ReallocToSystem(old_ptr, old_layout, new_layout) ==
    \E os \in SysAllocAnswers(FALSE) :
        LET r == MMapper_dealloc(World(mapper, vm), old_ptr) IN
        /\ Commit(r.w)
        /\ heap' = sys_alloc(heap, new_layout, os.addr)
        /\ last' = [Call("realloc") EXCEPT
                       !.branch = "managed_system", !.ptr = old_ptr,
                       !.layout = old_layout, !.new_size = new_layout.size,
                       !.ret = os.addr, !.sys = "alloc", !.sys_layout = new_layout,
                       !.copied = IF os.addr # NULL THEN new_layout.size ELSE 0,
                       !.unmapped = r.w.unmapped]

(* faulty variant: the old block is not handed back to the system allocator *)
ReallocToManaged_leak(old_ptr, old_layout, new_layout) ==
    \E os \in MapAnswers :
        LET r == MMapper_alloc(World(mapper, vm), new_layout, os) IN
        /\ Commit(r.w)
        /\ heap' = heap
        /\ last' = [Call("realloc") EXCEPT
                       !.branch = "system_managed", !.ptr = old_ptr,
                       !.layout = old_layout, !.new_size = new_layout.size,
                       !.ret = r.ptr,
                       !.copied = IF r.ptr # NULL THEN old_layout.size ELSE 0]

(* realloc, system -> managed: lines 133-147 *)
ReallocToManaged(old_ptr, old_layout, new_layout) ==
    \E os \in MapAnswers :
        LET r == MMapper_alloc(World(mapper, vm), new_layout, os) IN
        /\ Commit(r.w)
        /\ heap' = IF r.w.fatal = "" THEN sys_dealloc(heap, old_ptr) ELSE heap
        /\ last' = [Call("realloc") EXCEPT
                       !.branch = "system_managed", !.ptr = old_ptr,
                       !.layout = old_layout, !.new_size = new_layout.size,
                       !.ret = r.ptr,
                       !.sys = IF r.w.fatal = "" THEN "dealloc" ELSE "none",
                       !.sys_layout = IF r.w.fatal = "" THEN old_layout ELSE NoLayout,
                       !.copied = IF r.ptr # NULL THEN old_layout.size ELSE 0]

(* realloc, system -> system: lines 148-151 *)
ReallocSystem(old_ptr, old_layout, new_layout) ==
    \E np \in SysReallocAnswers(old_ptr) :
        /\ heap' = IF np = NULL THEN heap
                   ELSE MapInsert(MapRemove(heap, old_ptr), np, new_layout)
        /\ UNCHANGED <<mapper, vm, fatal>>
        /\ last' = [Call("realloc") EXCEPT
                       !.branch = "system_system", !.ptr = old_ptr,
                       !.layout = old_layout, !.new_size = new_layout.size,
                       !.ret = np, !.sys = "realloc", !.sys_layout = old_layout]

HugeGlobalAllocator_realloc(old_ptr, old_layout, new_size) ==
    LET new_layout == [size |-> new_size, align |-> old_layout.align] IN
    IF is_managed_ptr(mapper, old_ptr)
    THEN IF uses_mapper(new_size, threshold)
         THEN ReallocManaged(old_ptr, old_layout, new_layout)
         ELSE ReallocToSystem(old_ptr, old_layout, new_layout)
    ELSE IF uses_mapper(new_size, threshold)
         THEN ReallocToManaged(old_ptr, old_layout, new_layout)
         ELSE ReallocSystem(old_ptr, old_layout, new_layout)

Realloc ==
    /\ fatal = ""
    /\ \E ptr \in LivePtrs, new_size \in Sizes :
           HugeGlobalAllocator_realloc(ptr, LayoutOf(ptr), new_size)
    /\ UNCHANGED <<threshold, tvars>>

(* stats, lines 43-51: the caller receives MMapper_stats(mapper), a value     *)
(* copy; nothing but the call record changes.                                *)
Stats ==
    /\ fatal = ""
    /\ last' = Call("stats")
    /\ UNCHANGED <<threshold, mapper, vm, heap, fatal, tvars>>

Next == Alloc \/ AllocZeroed \/ Dealloc \/ Realloc \/ Stats

Spec == Init /\ [][Next]_vars

----------------------------------------------------------------------------
(* set_threshold(bytes), as the specification describes it: the threshold is  *)
(* replaced atomically; segments already managed are not touched.             *)

ThresholdSettings == {0, MiB}

SetThreshold ==
    /\ fatal = ""
    /\ \E t \in ThresholdSettings :
           /\ threshold' = t
           /\ last' = [Call("set_threshold") EXCEPT !.new_size = t]
    /\ UNCHANGED <<mapper, vm, heap, fatal, tvars>>

NextThreshold == Next \/ SetThreshold

SpecThreshold == Init /\ [][NextThreshold]_vars

----------------------------------------------------------------------------
(* The facade called from several threads.  A call is no longer one step: it  *)
(* is cut where the source takes or releases one of its locks (the facade's   *)
(* Mutex<MMapper>, and inside MMapper the ptr_map and stats mutexes), so that *)
(* another thread can run in between unless the facade's mutex stops it.      *)

(* faulty variant: the facade's mutex excludes nobody *)
mapper_unlocked_always == TRUE

(* self.mapper.lock() succeeds at once *)
mapper_unlocked == lock = 0

Goto(t, label, locals) ==
    /\ pc' = [pc EXCEPT ![t] = label]
    /\ tl' = [tl EXCEPT ![t] = locals]

(* the call returns and its MutexGuard, if it took one, is dropped *)
Return(t) ==
    /\ Goto(t, "idle", NoLocals)
    /\ lock' = 0

(* MMapper::alloc up to the insert, lines 27-42: [w, mmap] *)
alloc_segment(w, layout, os) ==
    LET made == MMap_new(layout, os) IN
    IF w.fatal # "" THEN [w |-> w, mmap |-> None]
    ELSE IF ~is_some(made)
    THEN [w |-> alloc_error(w, "MMapper::alloc: failed to map segment"), mmap |-> None]
    ELSE LET w1 == vm_map(w, made[1]) IN
         [w |-> IF is_default_page_size(made[1])
                THEN w_add_missed(w1, layout.size) ELSE w1,
          mmap |-> made]

(* MMapper::realloc between map_remove and the insert, lines 62-94:           *)
(* [w, mmap, old] with mmap the segment to insert and old the one to drop.    *)
realloc_segment(w, old, layout, ros, aos) ==
    LET rm == MMap_remap(old, layout, ros) IN
    IF rm.ok
    THEN LET new == rm.mmap
             w1 == IF rm.called THEN vm_remap(w, old, new) ELSE w
             w2 == IF is_default_page_size(old)
                   THEN IF layout.size > MMap_size(old)
                        THEN w_add_missed(w1, layout.size - MMap_size(old)) ELSE w1
                   ELSE IF is_default_page_size(new)
                        THEN w_add_missed(w1, layout.size) ELSE w1
         IN  [w |-> w2, mmap |-> Some(new), old |-> None]
    ELSE LET w1 == [w EXCEPT !.mapper.stats.remaps_failed =
                                 w.mapper.stats.remaps_failed + 1]
             a == alloc_segment(w1, layout, aos)
         IN  [w |-> a.w, mmap |-> a.mmap, old |-> Some(old)]

(* What HashMap::insert asks of the global allocator, which is this facade:   *)
(* nothing, or a table of `bytes` bytes.  The first insert allocates the      *)
(* first table, which is far below any threshold new() accepts; when a later  *)
(* insert grows the table is the standard library's decision.                 *)
TableGrowth(m) ==
    IF is_some(m.ptr_map) THEN {0} \cup Sizes
    ELSE {b \in Sizes : ~new_assert(b)}

(* Does the insert call back into a section that locks the facade's mutex?    *)
(* GlobalAlloc::alloc locks it for a table of at least the threshold, and     *)
(* GlobalAlloc::dealloc, which frees the table that was outgrown, always.     *)
Reenters(m, bytes) ==
    bytes # 0 /\ (uses_mapper(bytes, threshold) \/ is_some(m.ptr_map))

(* System.dealloc / System.realloc on a pointer that is not a live block of   *)
(* the system allocator (the caller's pointer was freed by another thread):   *)
(* the call may corrupt nothing or abort.                                     *)
StaleOutcomes(ptr) == IF ptr = NULL \/ ptr \in DOMAIN heap THEN {FALSE} ELSE BOOLEAN

sys_release(w, abort) ==
    IF abort THEN alloc_error(w, "System: pointer is not a live block") ELSE w

(* alloc, lines 64-79; below the threshold the whole call is System.alloc *)
ThAlloc(t) ==
    /\ fatal = "" /\ pc[t] = "idle"
    /\ \E layout \in Layouts :
          IF uses_mapper(layout.size, threshold)
          THEN /\ mapper_unlocked
               /\ lock' = t
               /\ \E os \in MapAnswers :
                     LET r == alloc_segment(World(mapper, vm), layout, os) IN
                     /\ Commit(r.w)
                     /\ Goto(t, "map_add", [NoLocals EXCEPT !.mmap = r.mmap,
                                                            !.layout = layout])
               /\ heap' = heap
          ELSE /\ \E os \in SysAllocAnswers(FALSE) :
                     heap' = sys_alloc(heap, layout, os.addr)
               /\ UNCHANGED <<mapper, vm, fatal, tvars>>
    /\ UNCHANGED <<threshold, last>>

(* map_add, lines 173-184, and what the call does after it: realloc's         *)
(* fallback drops the old segment, realloc from a system block frees it.      *)
ThMapAdd(t) ==
    /\ fatal = "" /\ pc[t] = "map_add"
    /\ \E bytes \in TableGrowth(mapper) :
          IF Reenters(mapper, bytes)
          THEN /\ Goto(t, "relock", tl[t])
               /\ UNCHANGED <<mapper, vm, heap, fatal, lock>>
          ELSE \E abort \in StaleOutcomes(tl[t].sys_old) :
               LET w1 == map_add(World(mapper, vm), tl[t].mmap[1])
                   w2 == IF is_some(tl[t].old) THEN MMap_drop(w1, tl[t].old[1]) ELSE w1
               IN  /\ Commit(sys_release(w2, abort))
                   /\ heap' = IF tl[t].sys_old = NULL THEN heap
                              ELSE sys_dealloc(heap, tl[t].sys_old)
                   /\ Return(t)
    /\ UNCHANGED <<threshold, last>>

(* The pointers a caller may pass to dealloc and realloc: any block it holds  *)
(* when it makes the call.  The call may find the facade's mutex taken, and   *)
(* another thread may free or move the block before the call has the mutex,   *)
(* so what the call is passed once it runs is any address.                    *)
PtrArgs == Addrs

(* dealloc, lines 81-94 *)
ThDealloc(t) ==
    /\ fatal = "" /\ pc[t] = "idle"
    /\ mapper_unlocked
    /\ \E ptr \in PtrArgs :
          LET r == MMapper_dealloc(World(mapper, vm), ptr) IN
          \E abort \in IF r.ok THEN {FALSE} ELSE StaleOutcomes(ptr) :
             /\ Commit(sys_release(r.w, abort))
             /\ heap' = IF r.ok THEN heap ELSE sys_dealloc(heap, ptr)
    /\ UNCHANGED <<threshold, last, tvars>>

(* realloc, lines 101-152, up to the first call that changes the registry;    *)
(* `holder` is who holds the facade's mutex afterwards.                       *)
ThReallocHolding(t, holder) ==
    /\ fatal = "" /\ pc[t] = "idle"
    /\ mapper_unlocked
    /\ \E old_ptr \in PtrArgs, new_layout \in Layouts :
          IF is_managed_ptr(mapper, old_ptr)
          THEN IF uses_mapper(new_layout.size, threshold)
               THEN /\ Goto(t, "realloc_remove", [NoLocals EXCEPT !.ptr = old_ptr,
                                                                 !.layout = new_layout])
                    /\ lock' = holder
                    /\ UNCHANGED <<mapper, vm, heap, fatal>>
               ELSE /\ \E os \in SysAllocAnswers(FALSE) :
                          heap' = sys_alloc(heap, new_layout, os.addr)
                    /\ Goto(t, "realloc_dealloc", [NoLocals EXCEPT !.ptr = old_ptr])
                    /\ lock' = holder
                    /\ UNCHANGED <<mapper, vm, fatal>>
          ELSE IF uses_mapper(new_layout.size, threshold)
               THEN /\ \E os \in MapAnswers :
                          LET r == alloc_segment(World(mapper, vm), new_layout, os) IN
                          /\ Commit(r.w)
                          /\ Goto(t, "map_add", [NoLocals EXCEPT !.mmap = r.mmap,
                                                                 !.layout = new_layout,
                                                                 !.sys_old = old_ptr])
                    /\ lock' = holder
                    /\ heap' = heap
               ELSE /\ \E np \in SysReallocAnswers(old_ptr) :
                       \E abort \in StaleOutcomes(old_ptr) :
                          /\ Commit(sys_release(World(mapper, vm), abort))
                          /\ heap' = IF np = NULL \/ old_ptr \notin DOMAIN heap THEN heap
                                     ELSE MapInsert(MapRemove(heap, old_ptr), np,
                                                    new_layout)
                    /\ UNCHANGED tvars
    /\ UNCHANGED <<threshold, last>>

(* faulty variant: the mutex is released between the lookup and the removal *)
ThRealloc_unlocked(t) == ThReallocHolding(t, 0)

ThRealloc(t) == ThReallocHolding(t, t)

(* MMapper::realloc, lines 57-94: the entry is taken out and resized or       *)
(* replaced; the insert follows.                                              *)
ThReallocRemove(t) ==
    /\ fatal = "" /\ pc[t] = "realloc_remove"
    /\ LET r == map_remove(World(mapper, vm), tl[t].ptr) IN
       IF ~is_some(r.removed)
       THEN /\ Commit(alloc_error(r.w, "MMapper::realloc: ptr not found"))
            /\ UNCHANGED tvars
       ELSE \E ros \in RemapAnswers(r.removed[1], tl[t].layout) :
            \E aos \in IF ros.ok THEN {NoAnswer} ELSE MapAnswers :
               LET s == realloc_segment(r.w, r.removed[1], tl[t].layout, ros, aos) IN
               /\ Commit(s.w)
               /\ Goto(t, "map_add", [NoLocals EXCEPT !.mmap = s.mmap, !.old = s.old,
                                                      !.layout = tl[t].layout])
               /\ lock' = lock
    /\ UNCHANGED <<threshold, heap, last>>

(* realloc to below the threshold, line 127: mapper.dealloc(old_ptr) *)
ThReallocDealloc(t) ==
    /\ fatal = "" /\ pc[t] = "realloc_dealloc"
    /\ Commit(MMapper_dealloc(World(mapper, vm), tl[t].ptr).w)
    /\ Return(t)
    /\ UNCHANGED <<threshold, heap, last>>

(* stats, lib.rs lines 43-51 and mmapper.rs lines 109-129: the table is read  *)
(* under the ptr_map mutex                                                    *)
ThStats(t) ==
    /\ fatal = "" /\ pc[t] = "idle"
    /\ mapper_unlocked
    /\ lock' = t
    /\ Goto(t, "stats_counters", [NoLocals EXCEPT !.table = mapper.ptr_map])
    /\ UNCHANGED <<threshold, mapper, vm, heap, fatal, last>>

(* the snapshot a stats call that has read the table will return: the         *)
(* counters are read under the stats mutex, mmapper.rs lines 131-145          *)
StatsResult(t) == MMapper_stats([ptr_map |-> tl[t].table, stats |-> mapper.stats])

ThStatsCounters(t) ==
    /\ fatal = "" /\ pc[t] = "stats_counters"
    /\ Return(t)
    /\ UNCHANGED <<threshold, mapper, vm, heap, fatal, last>>

NextThreads ==
    \E t \in Threads :
        \/ ThAlloc(t) \/ ThMapAdd(t)
        \/ ThDealloc(t)
        \/ ThRealloc(t) \/ ThReallocRemove(t) \/ ThReallocDealloc(t)
        \/ ThStats(t) \/ ThStatsCounters(t)

SpecThreads == Init /\ [][NextThreads]_vars

----------------------------------------------------------------------------
(* What stats() reports in the current state *)

Snapshot == MMapper_stats(mapper)

Running == fatal = ""

----------------------------------------------------------------------------
(* C1: a call alloc(layout) that returns leaves segment_count unchanged and   *)
(* goes to the system allocator when layout.size < threshold, and raises      *)
(* segment_count by exactly 1 when layout.size >= threshold, a size equal to  *)
(* the threshold included.                                                    *)
C1_ThresholdDispatch ==
    (Running /\ last.op = "alloc") =>
        IF last.layout.size < threshold
        THEN /\ Snapshot.segments = last.pre_segments
             /\ last.sys = "alloc"
             /\ last.ret \notin ManagedPtrs
        ELSE /\ Snapshot.segments = last.pre_segments + 1
             /\ last.sys = "none"
             /\ last.ret \in ManagedPtrs

C1_Witness ==
    /\ Running /\ last.op = "alloc"
    /\ last.layout.size = threshold
    /\ Snapshot.segments = last.pre_segments + 1

(* C2: alloc(layout) immediately followed by dealloc of the pointer it        *)
(* returned leaves stats().segments and stats().alloc at the values they had  *)
(* before the alloc.                                                          *)
C2_RoundTrip ==
    [][(/\ last.op = "alloc" /\ last.ret # NULL
        /\ last'.op = "dealloc" /\ last'.ptr = last.ret
        /\ fatal' = "")
       => (/\ MMapper_stats(mapper').segments = last.pre_segments
           /\ MMapper_stats(mapper').alloc = last.pre_alloc)]_vars

C2_Witness ==
    /\ Running /\ last.op = "dealloc"
    /\ last.follows = "alloc:mapper"
    /\ last.ptr \notin ManagedPtrs
    /\ Snapshot.segments >= 1

(* C3: in every snapshot the per-class figures add up to the totals, for      *)
(* segments, mapped bytes and allocated bytes.                                *)
C3_ClassesPartitionTotals ==
    LET s == Snapshot IN
    /\ s.default_segments + s.huge_segments = s.segments
    /\ s.default_mapped + s.huge_mapped = s.mapped
    /\ s.default_alloc + s.huge_alloc = s.alloc

C3_Witness ==
    /\ last.op = "stats"
    /\ Snapshot.default_segments >= 1
    /\ Snapshot.huge_segments >= 1

(* C4: in every snapshot, after any sequence of alloc, dealloc and realloc    *)
(* calls, mapped >= alloc.                                                    *)
C4_MappedCoversAllocated == LET s == Snapshot IN s.mapped >= s.alloc

C4_Witness ==
    /\ Running /\ last.op = "realloc" /\ last.remap = "failed"
    /\ Snapshot.segments >= 1
    /\ Snapshot.mapped > Snapshot.alloc

(* C5, as claimed: efficiency is in [0, 100] and is 100 exactly when mapped   *)
(* is 0.                                                                      *)
C5_EfficiencyFullOnlyWhenUnmapped ==
    /\ Snapshot.efficiency \in 0..100
    /\ (Snapshot.efficiency = 100) <=> (Snapshot.mapped = 0)

(* C5, amended: efficiency is in [0, 100]; it is 100 when mapped is 0, and    *)
(* when mapped is not 0 it is 100 exactly when alloc equals mapped.           *)
C5_EfficiencyRange ==
    LET s == Snapshot IN
    /\ s.efficiency \in 0..100
    /\ (s.mapped = 0) => (s.efficiency = 100)
    /\ (s.mapped # 0) => ((s.efficiency = 100) <=> (s.alloc = s.mapped))

C5_Witness ==
    /\ last.op = "stats"
    /\ Snapshot.mapped # 0
    /\ Snapshot.efficiency = 100

(* C6: a realloc of a managed pointer to a size that still meets the          *)
(* threshold, when it returns, returns a managed pointer and leaves           *)
(* segment_count unchanged; either the segment was resized by remap and       *)
(* remaps_failed is unchanged, or the remap failed, remaps_failed grew by     *)
(* exactly 1 and the old segment was unmapped.                                *)
C6_ManagedReallocOutcomes ==
    [][(last'.op = "realloc" /\ last'.branch = "managed_managed" /\ fatal' = "")
       => (/\ last'.ret # NULL
           /\ last'.ret \in DOMAIN Table(mapper')
           /\ MMapper_stats(mapper').segments = MMapper_stats(mapper).segments
           /\ \/ /\ last'.remap \in {"same_size", "in_place", "moved"}
                 /\ mapper'.stats.remaps_failed = mapper.stats.remaps_failed
                 /\ last'.unmapped = {}
              \/ /\ last'.remap = "failed"
                 /\ mapper'.stats.remaps_failed = mapper.stats.remaps_failed + 1
                 /\ last'.unmapped = {last'.ptr}
                 /\ last'.ptr \notin DOMAIN vm'
                 /\ last'.ptr \notin DOMAIN Table(mapper'))]_vars

C6_Witness ==
    /\ Running /\ last.op = "realloc" /\ last.branch = "managed_managed"
    /\ last.remap = "failed"
    /\ mapper.stats.remaps_failed = 1
    /\ last.ret \in ManagedPtrs

(* C7: a realloc of a managed pointer to a size below the threshold removes   *)
(* its entry (segment_count falls by exactly 1) and returns a pointer that is *)
(* not a key of the registry; a dealloc of that pointer right after goes to   *)
(* the system allocator and leaves the registry as it was.                    *)
C7_ShrinkBelowThreshold ==
    [][/\ (last'.op = "realloc" /\ last'.branch = "managed_system" /\ fatal' = "")
          => (/\ MMapper_stats(mapper').segments = MMapper_stats(mapper).segments - 1
              /\ last'.ptr \notin DOMAIN Table(mapper')
              /\ last'.ret \notin DOMAIN Table(mapper'))
       /\ (/\ last.op = "realloc" /\ last.branch = "managed_system"
           /\ last.ret # NULL
           /\ last'.op = "dealloc" /\ last'.ptr = last.ret)
          => (/\ last'.sys = "dealloc"
              /\ last'.unmapped = {}
              /\ mapper' = mapper
              /\ vm' = vm
              /\ last'.ptr \notin DOMAIN heap')]_vars

C7_Witness ==
    /\ Running /\ last.op = "dealloc"
    /\ last.follows = "realloc:managed_system"
    /\ last.sys = "dealloc"

(* C8: once the threshold is 0, every allocation, whatever its size, goes to  *)
(* the system allocator and adds no segment to the registry.                  *)
C8_ZeroThresholdDisables ==
    (Running /\ threshold = 0 /\ last.op \in {"alloc", "alloc_zeroed"}) =>
        /\ last.branch = "system"
        /\ Snapshot.segments = last.pre_segments

(* C9: alloc_zeroed returns memory whose every byte is zero, and below the    *)
(* threshold it obtains it from the system allocator's zeroing routine.       *)
C9_AllocZeroedIsZero ==
    (Running /\ last.op = "alloc_zeroed" /\ last.ret # NULL) =>
        /\ last.zeroed
        /\ (last.branch = "system") => (last.sys = "alloc_zeroed")

(* C10: dealloc(ptr, layout) releases the block through exactly one backend:  *)
(* a registry key is removed and its segment unmapped without any call to the *)
(* system allocator; any other pointer leaves the registry unchanged and is   *)
(* handed to the system allocator's dealloc with the layout it was given.     *)
C10_DeallocOneBackend ==
    [][(last'.op = "dealloc" /\ fatal' = "")
       => IF last'.ptr \in DOMAIN Table(mapper)
          THEN /\ DOMAIN Table(mapper') = (DOMAIN Table(mapper)) \ {last'.ptr}
               /\ last'.unmapped = {last'.ptr}
               /\ last'.ptr \notin DOMAIN vm'
               /\ last'.sys = "none"
               /\ heap' = heap
          ELSE /\ mapper' = mapper
               /\ vm' = vm
               /\ last'.unmapped = {}
               /\ last'.sys = "dealloc"
               /\ last'.sys_layout = heap[last'.ptr]
               /\ heap' = MapRemove(heap, last'.ptr)]_vars

C10_Witness ==
    /\ Running /\ last.op = "dealloc"
    /\ last.branch = "system"
    /\ last.sys = "dealloc"
    /\ last.sys_layout.size < threshold
    /\ Snapshot.segments >= 1

(* C11: a realloc that returns a non-null pointer returns a registry key      *)
(* exactly when new_size >= threshold, and leaves old_ptr out of the registry *)
(* unless old_ptr is the pointer returned; when an unmanaged pointer grows to *)
(* meet the threshold exactly one segment is added and the old block is       *)
(* released through the system allocator with the layout it was given.        *)
C11_ReallocKeyIffThreshold ==
    [][(last'.op = "realloc" /\ last'.ret # NULL /\ fatal' = "")
       => (/\ (last'.ret \in DOMAIN Table(mapper')) <=> (last'.new_size >= threshold)
           /\ (last'.ptr # last'.ret) => (last'.ptr \notin DOMAIN Table(mapper'))
           /\ (last'.ptr \notin DOMAIN Table(mapper) /\ last'.new_size >= threshold)
                 => (/\ DOMAIN Table(mapper') = (DOMAIN Table(mapper)) \cup {last'.ret}
                     /\ MMapper_stats(mapper').segments
                            = MMapper_stats(mapper).segments + 1
                     /\ last'.sys = "dealloc"
                     /\ last'.sys_layout = heap[last'.ptr]
                     /\ heap' = MapRemove(heap, last'.ptr)))]_vars

C11_Witness ==
    /\ Running /\ last.op = "realloc" /\ last.branch = "system_managed"
    /\ last.ret \in ManagedPtrs
    /\ last.ptr \notin LivePtrs
    /\ last.layout.size < threshold
    /\ last.new_size >= threshold

(* C14: when the registry's realloc falls back to allocate-copy-unmap after a *)
(* failed resize, it copies exactly min(old requested size, new requested     *)
(* size) bytes, so the copy stays within the new segment's mapped size.       *)
C14_FallbackCopiesMin ==
    (Running /\ last.op = "realloc" /\ last.remap = "failed") =>
        /\ last.copied = IF last.layout.size <= last.new_size
                         THEN last.layout.size ELSE last.new_size
        /\ last.copied <= Table(mapper)[last.ret].alloc_size

(* C15: in the two threshold-crossing branches of the facade's realloc, a     *)
(* call that returns a block copies exactly min(old_size, new_size) bytes,    *)
(* which is within the old block's payload and within the new block.          *)
C15_CrossingCopiesMin ==
    (/\ Running /\ last.op = "realloc" /\ last.ret # NULL
     /\ last.branch \in {"managed_system", "system_managed"}) =>
        /\ last.copied = IF last.layout.size <= last.new_size
                         THEN last.layout.size ELSE last.new_size
        /\ last.copied <= last.layout.size
        /\ last.copied <= LayoutOf(last.ret).size

C15_Witness ==
    /\ Running /\ last.op = "realloc" /\ last.branch = "managed_system"
    /\ last.ret \in DOMAIN heap
    /\ last.copied = last.new_size
    /\ last.new_size < last.layout.size

(* C16: in every reachable state every registry entry is stored under the     *)
(* current base address of the mapping it owns (also after a resize that      *)
(* moved the mapping), no two entries share an address, and an insert on an   *)
(* address that is already a key takes the fatal path.                        *)
C16_KeyIsBaseAddress ==
    Running =>
        /\ \A a \in ManagedPtrs :
               /\ Table(mapper)[a].ptr = a
               /\ a \in DOMAIN vm
               /\ vm[a] = Table(mapper)[a].alloc_size
        /\ \A a, b \in ManagedPtrs :
               (Table(mapper)[a].ptr = Table(mapper)[b].ptr) => (a = b)
        /\ \A a \in ManagedPtrs :
               map_add(World(mapper, vm), Table(mapper)[a]).fatal
                   = "MMapper::map_add: map already exists"

C16_Witness ==
    /\ Running /\ last.op = "realloc" /\ last.remap = "moved"
    /\ last.ret # last.ptr
    /\ last.ptr \notin ManagedPtrs
    /\ last.ret \in ManagedPtrs
    /\ Table(mapper)[last.ret].ptr = last.ret

(* Layouts a resize is tried with: the request sizes, and sizes one byte past  *)
(* them, which share a mapped size with a neighbour.                          *)
RemapLayouts == [size : Sizes \cup {MiB + 1, 2 * MiB + 2}, align : Aligns]

(* C18: MMap::remap on any segment of the registry: when the mremap call      *)
(* fails the call returns failure and the segment (address, mapped size, page *)
(* size, requested layout) is unchanged; when the new mapped size equals the  *)
(* current one mremap is not called, the call succeeds and only the requested *)
(* layout changes.  A realloc that took the second route returned the same    *)
(* pointer and kept the mapped size the old layout had.                       *)
C18_RemapFrame ==
    /\ \A a \in ManagedPtrs : \A nl \in RemapLayouts :
       \A os \in [ok : {TRUE}, addr : FreeAddrs \cup {a}]
                    \cup [ok : {FALSE}, addr : {a}] :
           LET seg == Table(mapper)[a]
               r == MMap_remap(seg, nl, os)
               same == calc_alloc_size(nl.size, seg.page_size) = seg.alloc_size
           IN  /\ (~same /\ ~os.ok) => (r.called /\ ~r.ok /\ r.mmap = seg)
               /\ (~r.ok) => (r.mmap = seg)
               /\ same => (/\ r.ok /\ ~r.called
                           /\ r.mmap = [seg EXCEPT !.layout = nl])
    /\ (Running /\ last.op = "realloc" /\ last.remap = "same_size") =>
           LET seg == Table(mapper)[last.ret] IN
           /\ last.ret = last.ptr
           /\ last.unmapped = {}
           /\ seg.layout = [size |-> last.new_size, align |-> last.layout.align]
           /\ seg.alloc_size = calc_alloc_size(last.layout.size, seg.page_size)
           /\ vm[last.ret] = seg.alloc_size

C18_Witness ==
    /\ Running /\ last.op = "realloc" /\ last.remap = "same_size"
    /\ last.ret = last.ptr
    /\ \E nl \in RemapLayouts :
           LET seg == Table(mapper)[last.ret] IN
           /\ nl.size # seg.layout.size
           /\ calc_alloc_size(nl.size, seg.page_size) = seg.alloc_size
           /\ MMap_remap(seg, nl, [ok |-> FALSE, addr |-> NULL]).mmap.layout = nl

(* C19: MMapper::alloc, from any reachable registry and for every answer the  *)
(* two mmap calls can give: the segment is on huge pages when the huge        *)
(* mapping succeeds, on default pages when it fails and the default mapping   *)
(* succeeds, and the call takes the fatal path exactly when both fail; the    *)
(* missed-allocation count grows by 1 and the missed bytes by the requested   *)
(* size exactly when the segment made is on default pages, and neither        *)
(* changes otherwise.                                                         *)
C19_CreationFallback ==
    Running =>
        \A layout \in {l \in Layouts : uses_mapper(l.size, threshold)} :
        \A os \in [huge : BOOLEAN, dflt : BOOLEAN, addr : FreeAddrs] :
            LET r == MMapper_alloc(World(mapper, vm), layout, os)
                before == mapper.stats
                after == r.w.mapper.stats
            IN  /\ (r.w.fatal # "") <=> (~os.huge /\ ~os.dflt)
                /\ (r.w.fatal # "") =>
                       (/\ r.w.fatal = "MMapper::alloc: failed to map segment"
                        /\ r.w.mapper = mapper)
                /\ (r.w.fatal = "") =>
                       LET seg == Table(r.w.mapper)[r.ptr] IN
                       /\ os.huge => (seg.page_size = TWO_MB_PAGE_SIZE)
                       /\ is_default_page_size(seg) <=> (~os.huge /\ os.dflt)
                       /\ IF is_default_page_size(seg)
                          THEN /\ after.missed_allocs = before.missed_allocs + 1
                               /\ missed_total(after)
                                      = missed_total(before) + layout.size
                          ELSE /\ after.missed_allocs = before.missed_allocs
                               /\ missed_total(after) = missed_total(before)

C19_Witness ==
    /\ Running /\ last.op = "alloc" /\ last.branch = "mapper"
    /\ last.ret \in ManagedPtrs
    /\ is_default_page_size(Table(mapper)[last.ret])
    /\ Snapshot.missed_allocs = 1
    /\ Snapshot.missed_mb = last.layout.size
    /\ Snapshot.huge_segments = 1

(* Requested sizes around the page boundaries, and the two page sizes.         *)
CalcBoundaries ==
    {DEFAULT_PAGE_SIZE, MiB, TWO_MB_PAGE_SIZE, 2 * TWO_MB_PAGE_SIZE, 512 * MiB}

CalcSizes == {1, 2} \cup UNION {{p - 1, p, p + 1} : p \in CalcBoundaries}

PageSizes == {DEFAULT_PAGE_SIZE, TWO_MB_PAGE_SIZE}

(* calc_alloc_size on the sizes and page sizes above *)
CalcIsCeiling ==
    \A size \in CalcSizes : \A page \in PageSizes :
        LET m == calc_alloc_size(size, page) IN
        /\ m % page = 0
        /\ m >= size
        /\ m - size < page
        /\ m = ((size + page - 1) \div page) * page

(* C20: for every requested size and both page sizes calc_alloc_size is an    *)
(* exact multiple of the page size, is at least the requested size and        *)
(* exceeds it by less than one page, i.e. it is ceil(size / page) * page;     *)
(* every segment of the registry, created or resized, has that mapped size.   *)
C20_MappedSizeIsCeiling ==
    /\ CalcIsCeiling
    /\ \A a \in ManagedPtrs :
           LET seg == Table(mapper)[a] IN
           /\ seg.page_size \in PageSizes
           /\ seg.alloc_size % seg.page_size = 0
           /\ seg.alloc_size >= seg.layout.size
           /\ seg.alloc_size - seg.layout.size < seg.page_size

C20_Witness ==
    /\ Running /\ last.op = "realloc" /\ last.remap \in {"in_place", "moved"}
    /\ last.ret \in ManagedPtrs
    /\ Table(mapper)[last.ret].alloc_size = Table(mapper)[last.ret].layout.size
    /\ \E b \in ManagedPtrs :
           Table(mapper)[b].alloc_size > Table(mapper)[b].layout.size

(* the threads that have changed the counters or taken an entry out of the    *)
(* table and have not yet put their segment into the table                    *)
InFlight == {t \in Threads : pc[t] \in {"map_add", "relock"}}

(* the addresses of the segments a thread holds outside the table *)
Held(t) ==
    IF t \in InFlight
    THEN {o[1].ptr : o \in {x \in {tl[t].mmap, tl[t].old} : is_some(x)}}
    ELSE {}

(* C12: with alloc, dealloc, realloc and stats called from several threads in *)
(* any interleaving, while a stats call reads the table and the counters no   *)
(* other call is between its counter update and its table update or between   *)
(* taking an entry out and putting it back, and the snapshot is the one of    *)
(* the registry as it stands.                                                *)
C12_SnapshotNeverTorn ==
    \A t \in Threads :
        (Running /\ pc[t] = "stats_counters") =>
            /\ InFlight = {}
            /\ StatsResult(t) = MMapper_stats(mapper)

C12_Witness ==
    \E t \in Threads :
        /\ Running /\ pc[t] = "stats_counters"
        /\ StatsResult(t).segments >= 1
        /\ StatsResult(t).missed_allocs >= 1
        /\ StatsResult(t).remaps_failed >= 1

(* C13: a thread that holds the facade's mutex never asks for it again: the   *)
(* memory the address table needs to grow comes from the system allocator     *)
(* without going through a section that locks the mutex, whatever its size.   *)
C13_NoSelfDeadlock == \A t \in Threads : pc[t] # "relock"

(* C17: looking a registry entry up and taking it out are one atomic step:    *)
(* a realloc that has seen its pointer as managed finds it when it removes    *)
(* it, so the "ptr not found" path is never taken, and a segment taken out of *)
(* the table is held by one thread only and is not in the table.              *)
C17_LookupRemoveAtomic ==
    /\ fatal \notin {"MMapper::realloc: ptr not found",
                     "MMapper::realloc: failed to unmap",
                     "MMapper::map_add: map already exists"}
    /\ Running =>
          \A t \in Threads :
              /\ (pc[t] = "realloc_remove") => is_managed_ptr(mapper, tl[t].ptr)
              /\ Held(t) \cap ManagedPtrs = {}
              /\ \A u \in Threads \ {t} : Held(t) \cap Held(u) = {}

C17_Witness ==
    \E t \in Threads :
        /\ Running /\ pc[t] = "realloc_remove" /\ lock = t
        /\ is_managed_ptr(mapper, tl[t].ptr)
        /\ Cardinality(ManagedPtrs) >= 2
        /\ \E u \in Threads \ {t} : pc[u] = "idle"

(* The byte amounts add_missed is called with: the size of a request made on  *)
(* default pages, and the growth of a default-page segment that is resized.   *)
MissedAmounts ==
    LET managed == {x \in Sizes : uses_mapper(x, threshold)} IN
    managed \cup {b - a : <<a, b>> \in {y \in managed \X managed : y[1] < y[2]}}

(* C21: the missed bytes are held as whole megabytes plus a remainder below   *)
(* 1 MiB (1048576), now and after one more recording of any amount, and each  *)
(* recording adds exactly its amount to megabytes * 1048576 + remainder (so   *)
(* from the zero counters on that total is the sum of the amounts recorded).  *)
C21_MissedRemainderBelowMiB ==
    /\ mapper.stats.missed_bytes < MiB
    /\ \A bytes \in MissedAmounts :
           LET s == add_missed(mapper.stats, bytes) IN
           /\ s.missed_bytes < MiB
           /\ s.missed_allocs = mapper.stats.missed_allocs + 1
           /\ missed_total(s) = missed_total(mapper.stats) + bytes

(* C22: a realloc that returns a null pointer leaves the old allocation as it *)
(* was: for a managed pointer asked to shrink below the threshold the pointer *)
(* is still a registry key with the layout it had, its mapping is still in    *)
(* place and nothing was unmapped (so the segment count is unchanged); for a  *)
(* system block the block is still held.                                     *)
C22_NullReallocKeepsOld ==
    (Running /\ last.op = "realloc" /\ last.ret = NULL) =>
        /\ last.unmapped = {}
        /\ (last.branch = "managed_system") =>
               /\ last.ptr \in ManagedPtrs
               /\ Table(mapper)[last.ptr].layout = last.layout
               /\ last.ptr \in DOMAIN vm
        /\ (last.branch = "system_system") =>
               /\ last.ptr \in DOMAIN heap
               /\ heap[last.ptr] = last.layout

(* C23: every segment in the registry has a requested size of at least the    *)
(* threshold, and a realloc of a managed pointer to a size below the          *)
(* threshold takes its segment out of the registry instead of resizing it.    *)
C23_SegmentsMeetThreshold ==
    /\ \A a \in ManagedPtrs : Table(mapper)[a].layout.size >= threshold
    /\ (Running /\ last.op = "realloc" /\ last.new_size < threshold) =>
           /\ last.ptr \notin ManagedPtrs
           /\ last.ret \notin ManagedPtrs
           /\ (last.layout.size >= threshold) =>
                  (last.branch = "managed_system" /\ last.unmapped = {last.ptr})

C23_Witness ==
    /\ Running /\ last.op = "realloc" /\ last.branch = "managed_system"
    /\ last.new_size < threshold
    /\ last.unmapped = {last.ptr}
    /\ \E a \in ManagedPtrs : Table(mapper)[a].layout.size = threshold

(* C24: a segment keeps the page size it was created with: MMap::remap,       *)
(* failed or successful, never changes it and sizes the resized mapping with  *)
(* it.  When MMapper::realloc resizes a segment by remap the segment stays in *)
(* its page class, and the missed counters change only for a default-page     *)
(* segment that grows: one more missed allocation of new size - old size.     *)
C24_PageClassFixed ==
    Running =>
    \A a \in ManagedPtrs :
    LET seg == Table(mapper)[a] IN
    \A nl \in {l \in Layouts : uses_mapper(l.size, threshold)} :
    \A os \in [ok : {TRUE}, addr : FreeAddrs \cup {a}]
                 \cup [ok : {FALSE}, addr : {a}] :
        LET rm == MMap_remap(seg, nl, os)
            r == MMapper_realloc(World(mapper, vm), a, nl, os, NoAnswer)
            grows == is_default_page_size(seg) /\ nl.size > MMap_size(seg)
        IN  /\ rm.mmap.page_size = seg.page_size
            /\ rm.ok => (rm.mmap.alloc_size = calc_alloc_size(nl.size, seg.page_size))
            /\ rm.ok =>
                   /\ r.w.fatal = ""
                   /\ r.remap \in {"same_size", "in_place", "moved"}
                   /\ Table(r.w.mapper)[r.ptr].page_size = seg.page_size
                   /\ r.w.mapper.stats.missed_allocs
                          = mapper.stats.missed_allocs + (IF grows THEN 1 ELSE 0)
                   /\ missed_total(r.w.mapper.stats)
                          = missed_total(mapper.stats)
                              + (IF grows THEN nl.size - MMap_size(seg) ELSE 0)

C24_Witness ==
    /\ Running /\ last.op = "realloc" /\ last.remap \in {"in_place", "moved"}
    /\ last.ret \in ManagedPtrs
    /\ is_default_page_size(Table(mapper)[last.ret])
    /\ last.new_size < last.layout.size
    /\ mapper.stats.missed_allocs = 1
    /\ \E b \in ManagedPtrs : ~is_default_page_size(Table(mapper)[b])
    /\ \E nl \in Layouts :
           /\ nl.size > last.new_size
           /\ MMapper_realloc(World(mapper, vm), last.ret, nl,
                              [ok |-> TRUE, addr |-> last.ret], NoAnswer)
                  .w.mapper.stats.missed_allocs = 2

====
